---------------------------- MODULE Spec2Model ----------------------------
(***************************************************************************)
(* A model of the UUID generator of generator.go: the Gen and MonotonicGen *)
(* state, the clock-sequence tracker, the monotonic counter, the cached    *)
(* hardware address and the per-version byte layouts.                      *)
(*                                                                         *)
(* Numbers: TLC integers are 32 bits wide, so a uint64 is kept as four     *)
(* 16-bit limbs <<l3, l2, l1, l0>>, most significant first; a uint16 and a *)
(* byte are plain integers reduced modulo 2^16 and 2^8.  A time.Time is    *)
(* its count of nanoseconds since the Unix epoch.  A UUID is a sequence of *)
(* 16 bytes; Go's u[k] is u[k+1] here.                                     *)
(***************************************************************************)
EXTENDS Integers, Sequences, FiniteSets, TLC

(***************************************************************************)
(* Bounds of the model.                                                    *)
(***************************************************************************)
\* calls started in one run of a specification of single identifiers
MaxCalls == 3
\* calls started in one run of a specification with batches, or with the
\* loads and stores of two threads
MaxCallsAll == 2
\* largest batch size asked of GenerateBatchV7
MaxBatch == 2
\* largest batch size asked of it in the specification with every operation
MaxBatchAll == 1
\* increments of the clock sequence in one run under a stalled clock
MaxIncrements == 16384

(***************************************************************************)
(* Bytes, uint16 and uint64 arithmetic.                                    *)
(***************************************************************************)
Hi8(v) == (v \div 256) % 256
Lo8(v) == v % 256

\* binary.BigEndian.Uint16(buf)
Uint16(buf) == buf[1] * 256 + buf[2]

\* uint64(n) for 0 <= n < 2^31
U64(n) == <<0, 0, n \div 65536, n % 65536>>

U64Zero == <<0, 0, 0, 0>>

\* a + b modulo 2^64
U64Add(a, b) ==
    LET s0 == a[4] + b[4]
        s1 == a[3] + b[3] + (s0 \div 65536)
        s2 == a[2] + b[2] + (s1 \div 65536)
        s3 == a[1] + b[1] + (s2 \div 65536)
    IN  <<s3 % 65536, s2 % 65536, s1 % 65536, s0 % 65536>>

\* a < b on uint64
U64Lt(a, b) ==
    \E i \in 1..4 : a[i] < b[i] /\ \A j \in 1..(i - 1) : a[j] = b[j]

\* a <= b on uint64
U64Le(a, b) == a = b \/ U64Lt(a, b)

\* byte-lexicographic a < b for two byte sequences of one length
BytesLt(a, b) ==
    \E i \in 1..Len(a) : a[i] < b[i] /\ \A j \in 1..(i - 1) : a[j] = b[j]

\* s[from..to], 1-based and inclusive
Slice(s, from, to) == [k \in 1..(to - from + 1) |-> s[from + k - 1]]

\* difference in 100-nanosecond intervals between 1582-10-15 and 1970-01-01,
\* 122192928000000000 = 0x01B21DD213814000
epochStart == <<434, 7634, 4993, 16384>>

\* atTime.UnixMilli() and atTime.UnixNano() / 100 of a time of atTime nanoseconds
UnixMilli(atTime) == atTime \div 1000000
UnixHundredNanos(atTime) == atTime \div 100

getEpoch(atTime) == U64Add(epochStart, U64(UnixHundredNanos(atTime)))

(***************************************************************************)
(* The UUID value and its two bit-field setters.                           *)
(***************************************************************************)
Nil == [k \in 1..16 |-> 0]

\* u[6] = (u[6] & 0x0f) | (v << 4)
SetVersion(u, v) == [u EXCEPT ![7] = (@ % 16) + v * 16]

\* u[8] = (u[8] & 0x3f) | 0x80
SetVariant(u) == [u EXCEPT ![9] = (@ % 64) + 128]

\* binary.BigEndian.PutUint16(u[off:], v)
PutUint16(u, off, v) == [u EXCEPT ![off + 1] = Hi8(v), ![off + 2] = Lo8(v)]

\* copy(u[off:], src): min(len(u) - off, len(src)) bytes are copied
CopyAt(u, off, src) ==
    [k \in 1..Len(u) |->
        IF k > off /\ k <= off + Len(src) THEN src[k - off] ELSE u[k]]

VersionOf(u) == u[7] \div 16
VariantBits(u) == u[9] \div 64

\* uint16(t >> n) for a uint64 t and 0 <= n < 64
Shr16(t, n) ==
    LET q == n \div 16
        r == n % 16
        limb(k) == IF k > 3 THEN 0 ELSE t[4 - k]
    IN  ((limb(q) \div (2 ^ r)) + limb(q + 1) * (2 ^ (16 - r))) % 65536

\* binary.BigEndian.PutUint32(u[off:], uint32(t >> n))
PutUint32Shr(u, off, t, n) ==
    PutUint16(PutUint16(u, off, Shr16(t, n + 16)), off + 2, Shr16(t, n))

(***************************************************************************)
(* The byte layouts, as the code of each version writes them.              *)
(***************************************************************************)
\* the timestamp written most significant bits first, as a v6 has it
V1TimeHighFirst(timeNow, clockSeq) ==
    LET u1 == PutUint32Shr(Nil, 0, timeNow, 28)
        u2 == PutUint16(u1, 4, Shr16(timeNow, 12))
        u3 == PutUint16(u2, 6, timeNow[4] % 4096)
    IN  PutUint16(u3, 8, clockSeq)

\* NewV1AtTime: the timestamp and clock-sequence bytes, before the node is copied
V1TimeFields(timeNow, clockSeq) ==
    LET u1 == PutUint32Shr(Nil, 0, timeNow, 0)
        u2 == PutUint16(u1, 4, Shr16(timeNow, 32))
        u3 == PutUint16(u2, 6, Shr16(timeNow, 48))
    IN  PutUint16(u3, 8, clockSeq)

\* NewV1AtTime: the node copied in, then the version and the variant set
V1Finish(u, addr) == SetVariant(SetVersion(CopyAt(u, 10, addr), 1))

\* the timestamp written least significant 32 bits first, as a v1 has it
V6TimeLowFirst(timeNow) ==
    LET u1 == PutUint32Shr(Nil, 0, timeNow, 0)
        u2 == PutUint16(u1, 4, Shr16(timeNow, 32))
    IN  PutUint16(u2, 6, Shr16(timeNow, 48))

\* NewV6AtTime: time_high, time_mid and time_low
V6TimeFields(timeNow) ==
    LET u1 == PutUint32Shr(Nil, 0, timeNow, 28)
        u2 == PutUint16(u1, 4, Shr16(timeNow, 12))
    IN  PutUint16(u2, 6, timeNow[4] % 4096)

\* NewV6AtTime: the random bytes read into u[8:], then version and variant
V6Finish(u, rnd) == SetVariant(SetVersion(CopyAt(u, 8, rnd), 6))

\* the version set before rand_a is written over it
V7VersionFirst(ms, clockSeq) ==
    LET u1 == [Nil EXCEPT ![1] = Hi8(Shr16(ms, 32)), ![2] = Lo8(Shr16(ms, 32)),
                          ![3] = Hi8(Shr16(ms, 16)), ![4] = Lo8(Shr16(ms, 16)),
                          ![5] = Hi8(Shr16(ms, 0)),  ![6] = Lo8(Shr16(ms, 0))]
    IN  PutUint16(SetVersion(u1, 7), 6, clockSeq)

\* NewV7AtTime and newMonotonicV7: the 48-bit timestamp, rand_a and the version
V7TimeFields(ms, clockSeq) ==
    LET u1 == [Nil EXCEPT ![1] = Hi8(Shr16(ms, 32)), ![2] = Lo8(Shr16(ms, 32)),
                          ![3] = Hi8(Shr16(ms, 16)), ![4] = Lo8(Shr16(ms, 16)),
                          ![5] = Hi8(Shr16(ms, 0)),  ![6] = Lo8(Shr16(ms, 0))]
    IN  SetVersion(PutUint16(u1, 6, clockSeq), 7)

\* NewV7AtTime and newMonotonicV7: rand_b read into u[8:16], then the variant
V7Finish(u, rnd) == SetVariant(CopyAt(u, 8, rnd))

\* the version and the variant set before the random bytes are read over them
V4BitsFirst(rnd) == CopyAt(SetVariant(SetVersion(Nil, 4)), 0, rnd)

\* NewV4: 16 random bytes, then version and variant
V4Layout(rnd) == SetVariant(SetVersion(CopyAt(Nil, 0, rnd), 4))

(***************************************************************************)
(* The collaborators: the clock, the random source and the hardware        *)
(* address source return what the environment chooses.                     *)
(***************************************************************************)
\* instants the clock returns and callers pass, in nanoseconds since 1970:
\* 1 ms, 1 ms + 100 ns (the same millisecond, the next 100 ns tick), 2 ms
Times == {1000000, 1000100, 2000000}

\* the two bytes a seeding read returns: an ordinary seed, one whose low 12
\* and low 14 bits are all ones, and the largest uint16
SeedReads == {<<0, 0>>, <<63, 255>>, <<255, 255>>}

\* io.ReadFull(g.rand, buf) with len(buf) = n: n bytes and no error, or an
\* error after fewer than n bytes were stored in buf
RandRead(n) ==
    (IF n = 2 THEN {[ok |-> TRUE, bytes |-> b] : b \in SeedReads}
     ELSE {[ok |-> TRUE, bytes |-> [k \in 1..n |-> 0]],
           [ok |-> TRUE, bytes |-> [k \in 1..n |-> 256 - 2 * k]]})
    \cup {[ok |-> FALSE, bytes |-> <<>>], [ok |-> FALSE, bytes |-> <<254>>]}

\* g.hwAddrFunc(): an address of six bytes and no error, or an error
HwAddrFunc ==
    {[ok |-> TRUE, addr |-> <<2, 0, 0, 0, 0, 1>>],
     [ok |-> TRUE, addr |-> <<2, 0, 0, 0, 0, 2>>],
     [ok |-> FALSE, addr |-> <<>>]}

\* namespaces and names given to NewV3 and NewV5
Namespaces == {[k \in 1..16 |-> 0], [k \in 1..16 |-> k]}
Names == {<<>>, <<120>>}

(***************************************************************************)
(* The state.                                                              *)
(***************************************************************************)
VARIABLES
    lastTime,            \* Gen.lastTime, a uint64
    clockSequence,       \* Gen.clockSequence, a uint16
    hardwareAddr,        \* Gen.hardwareAddr, six bytes
    clockSequenceOnce,   \* Gen.clockSequenceOnce: "fresh", "running" or "done"
    hardwareAddrOnce,    \* Gen.hardwareAddrOnce
    storageMutex,        \* Gen.storageMutex: the thread that holds it, or 0
    monotonicCounter,    \* MonotonicGen.monotonicCounter, a uint16
    monotonicMutex,      \* MonotonicGen.monotonicMutex
    pc,                  \* where each thread is in its call
    fr,                  \* each thread's arguments and local variables
    ret,                 \* what the call that returned last returned
    prev,                \* what the call before it returned, less a batch's identifiers
    ncalls,              \* calls started so far (counted up to MaxCalls + 1)
    hwCalls,             \* invocations of g.hwAddrFunc so far (counted up to 2)
    incs,                \* increments of clockSequence so far
    issuedV1,            \* the v1 identifiers returned by the first MaxCalls calls
    hashed,              \* the v3 and v5 identifiers returned, with their arguments
    trail                \* what the calls of the two sequence functions did so far

gen == <<lastTime, clockSequence, hardwareAddr, clockSequenceOnce,
         hardwareAddrOnce, storageMutex, monotonicCounter, monotonicMutex>>
ghost == <<ncalls, hwCalls, incs, issuedV1, hashed, trail>>
rets == <<ret, prev>>
vars == <<gen, pc, fr, rets, ghost>>

IdleFrame ==
    [op |-> "none", at |-> 0, timeNow |-> U64Zero, clockSeq |-> 0, seen |-> U64Zero,
     count |-> 0, i |-> 0, uuids |-> <<>>,
     clockReads |-> 0, randReads |-> 0, monoCalls |-> 0]

\* nothing called yet: no seeding read has succeeded, getClockSequence was
\* last given no instant (csAt = 0) and returned no timestamp (csTime) and
\* no sequence (csSeq, the seed once there is one), and neither did
\* getMonotonicClockSequence; results are the (timestamp, sequence) pairs
\* getClockSequence returned in the first MaxCalls calls
NoTrail ==
    [seeded |-> FALSE, csAt |-> 0, csTime |-> U64Zero, csSeq |-> 0,
     monoTime |-> U64Zero, results |-> {}]

NoRet ==
    [op |-> "none", thr |-> 0, at |-> 0, ns |-> <<>>, name |-> <<>>, count |-> 0,
     err |-> "nil", uuid |-> Nil, uuids |-> <<>>, read |-> <<>>,
     clockReads |-> 0, randReads |-> 0, monoCalls |-> 0, failedAt |-> 0]

\* the state of a generator that NewMonotonicGen has just built, used by
\* the threads of T
InitWith(T) ==
    /\ lastTime = U64Zero
    /\ clockSequence = 0
    /\ hardwareAddr = [k \in 1..6 |-> 0]
    /\ clockSequenceOnce = "fresh"
    /\ hardwareAddrOnce = "fresh"
    /\ storageMutex = 0
    /\ monotonicCounter = 0
    /\ monotonicMutex = 0
    /\ pc = [t \in T |-> "idle"]
    /\ fr = [t \in T |-> IdleFrame]
    /\ ret = NoRet
    /\ prev = NoRet
    /\ ncalls = 0
    /\ hwCalls = 0
    /\ incs = 0
    /\ issuedV1 = {}
    /\ hashed = {}
    /\ trail = NoTrail

(***************************************************************************)
(* The hash-based versions.  md5.New() and sha1.New() are library code: a  *)
(* digest is modelled as a fixed function of the bytes written to it that  *)
(* tells the two algorithms, the namespaces and the names apart.           *)
(***************************************************************************)
RECURSIVE Mix(_, _)
Mix(acc, bytes) ==
    IF bytes = <<>> THEN acc
    ELSE Mix((acc * 31 + Head(bytes) + 7) % 65521, Tail(bytes))

\* h.Sum(nil) after h.Write(ns[:]) and h.Write([]byte(name)); 16 or 20 bytes
Digest(h, written) ==
    LET d == Mix(IF h = "md5" THEN 1 ELSE 2, written)
    IN  [k \in 1..(IF h = "md5" THEN 16 ELSE 20) |-> (d * k + k * k) % 256]

\* one hash.Hash kept between calls and never Reset: the digest covers what
\* earlier calls wrote too
newFromHashShared(h, ns, name) ==
    LET sum == Digest(h, <<Cardinality(hashed)>> \o ns \o name)
    IN  CopyAt(Nil, 0, sum)

newFromHash(h, ns, name) ==
    LET sum == Digest(h, ns \o name)
    IN  CopyAt(Nil, 0, sum)

NewV3Value(ns, name) == SetVariant(SetVersion(newFromHash("md5", ns, name), 3))
NewV5Value(ns, name) == SetVariant(SetVersion(newFromHash("sha1", ns, name), 5))

(***************************************************************************)
(* Starting and ending a call.                                             *)
(***************************************************************************)
Started == ncalls' = IF ncalls <= MaxCalls THEN ncalls + 1 ELSE ncalls

\* thread t enters a function that keeps state across steps
Enter(t, label, frame) ==
    /\ pc[t] = "idle"
    /\ pc' = [pc EXCEPT ![t] = label]
    /\ fr' = [fr EXCEPT ![t] = frame]
    /\ Started

\* thread t returns r to its caller
Return(t, r) ==
    /\ ret' = [r EXCEPT !.thr = t]
    /\ prev' = [ret EXCEPT !.uuids = <<>>]
    /\ pc' = [pc EXCEPT ![t] = "idle"]
    /\ fr' = [fr EXCEPT ![t] = IdleFrame]
    /\ issuedV1' =
         IF r.op = "V1" /\ r.err = "nil" /\ ncalls <= MaxCalls
         THEN issuedV1 \cup {[ts |-> Slice(r.uuid, 1, 8), seq |-> Slice(r.uuid, 9, 10),
                              node |-> Slice(r.uuid, 11, 16), incs |-> incs]}
         ELSE issuedV1
    /\ hashed' =
         IF r.op \in {"V3", "V5"}
         THEN hashed \cup {[op |-> r.op, ns |-> r.ns, name |-> r.name, uuid |-> r.uuid,
                             call |-> ncalls']}
         ELSE hashed

\* return Nil, err
ReturnErr(t, op, at, err) ==
    Return(t, [NoRet EXCEPT !.op = op, !.at = at, !.err = err])

\* return u, nil
ReturnUUID(t, op, at, u) ==
    Return(t, [NoRet EXCEPT !.op = op, !.at = at, !.uuid = u])

(***************************************************************************)
(* getClockSequence and getMonotonicClockSequence.                         *)
(***************************************************************************)
\* timeNow of both functions
EpochOf(useUnixTSMs, atTime) ==
    IF useUnixTSMs THEN U64(UnixMilli(atTime)) ELSE getEpoch(atTime)

\* the comparison with < in place of <=
ClockWentBack(timeNow, last) == U64Lt(timeNow, last)

\* if timeNow <= g.lastTime { g.clockSequence++ }
ClockDidNotAdvance(timeNow, last) == U64Le(timeNow, last)

NextClockSequence(seq, timeNow, last) ==
    IF ClockDidNotAdvance(timeNow, last) THEN (seq + 1) % 65536 ELSE seq

\* if timeNow <= g.lastTime { g.monotonicCounter++ } else { g.monotonicCounter = 0 }
NextMonotonicCounter(counter, timeNow, last) ==
    IF U64Le(timeNow, last) THEN (counter + 1) % 65536 ELSE 0

\* a Once whose function has not returned yet lets a second caller in
OnceNotDone(once) == once # "done"

\* sync.Once.Do(f) runs f for the first caller only; a caller that arrives
\* while f runs waits until f has returned
OnceRunsFunction(once) == once = "fresh"

\* sync.Once.Do(f) returns without running f once f has returned
OnceIsDone(once) == once = "done"

\* g.clockSequenceOnce.Do: the first caller runs the seeding function
ClockSeqOnceEnter(t) ==
    /\ pc[t] = "cs_once"
    /\ OnceRunsFunction(clockSequenceOnce)
    /\ clockSequenceOnce' = "running"
    /\ pc' = [pc EXCEPT ![t] = "cs_seed"]
    /\ UNCHANGED <<lastTime, clockSequence, hardwareAddr, hardwareAddrOnce, storageMutex,
                   monotonicCounter, monotonicMutex, fr, rets, ghost>>

\* the seeding function, and the error check that follows Do in its caller
ClockSeqSeed(t) ==
    /\ pc[t] = "cs_seed"
    /\ clockSequenceOnce' = "done"
    /\ \E r \in RandRead(2) :
         IF r.ok
         THEN /\ clockSequence' = Uint16(r.bytes)
              /\ trail' = [trail EXCEPT !.seeded = TRUE, !.csSeq = Uint16(r.bytes)]
              /\ pc' = [pc EXCEPT ![t] = "cs_lock"]
              /\ UNCHANGED <<fr, rets, issuedV1, hashed>>
         ELSE /\ UNCHANGED <<clockSequence, trail>>
              /\ ReturnErr(t, fr[t].op, fr[t].at, "rand")
    /\ UNCHANGED <<lastTime, hardwareAddr, hardwareAddrOnce, storageMutex,
                   monotonicCounter, monotonicMutex, ncalls, hwCalls, incs>>

\* g.clockSequenceOnce.Do when the Once is done: the function is not run and
\* the caller's err stays nil
ClockSeqOnceSkip(t) ==
    /\ pc[t] = "cs_once"
    /\ OnceIsDone(clockSequenceOnce)
    /\ pc' = [pc EXCEPT ![t] = "cs_lock"]
    /\ UNCHANGED <<gen, fr, rets, ghost>>

\* the trail after getClockSequence(_, atTime) returned (timeNow, seq, nil)
Tracked(tr, atTime, timeNow, seq) ==
    [tr EXCEPT !.csAt = atTime, !.csTime = timeNow, !.csSeq = seq,
               !.results = IF ncalls <= MaxCalls
                           THEN @ \cup {[timeNow |-> timeNow, seq |-> seq]}
                           ELSE @]

\* g.storageMutex.Lock()
ClockSeqLock(t) ==
    /\ pc[t] = "cs_lock"
    /\ storageMutex = 0
    /\ storageMutex' = t
    /\ pc' = [pc EXCEPT ![t] = "cs_body"]
    /\ UNCHANGED <<lastTime, clockSequence, hardwareAddr, clockSequenceOnce,
                   hardwareAddrOnce, monotonicCounter, monotonicMutex, fr, rets, ghost>>

\* the body of getClockSequence under the lock, and the deferred Unlock
ClockSeqBody(t) ==
    /\ pc[t] = "cs_body"
    /\ LET timeNow == EpochOf(fr[t].op = "V7", fr[t].at)
           seq == NextClockSequence(clockSequence, timeNow, lastTime)
       IN  /\ clockSequence' = seq
           /\ lastTime' = timeNow
           /\ incs' = IF seq = clockSequence THEN incs ELSE incs + 1
           /\ fr' = [fr EXCEPT ![t].timeNow = timeNow, ![t].clockSeq = seq]
           /\ trail' = Tracked(trail, fr[t].at, timeNow, seq)
    /\ storageMutex' = 0
    /\ pc' = [pc EXCEPT ![t] = IF fr[t].op = "V1" THEN "hw_once" ELSE "rand_b"]
    /\ UNCHANGED <<hardwareAddr, clockSequenceOnce, hardwareAddrOnce, monotonicCounter,
                   monotonicMutex, rets, ncalls, hwCalls, issuedV1, hashed>>

\* g.monotonicMutex.Lock()
MonotonicLock(t) ==
    /\ pc[t] = "mono_lock"
    /\ monotonicMutex = 0
    /\ monotonicMutex' = t
    /\ pc' = [pc EXCEPT ![t] = "mono_body"]
    /\ UNCHANGED <<lastTime, clockSequence, hardwareAddr, clockSequenceOnce,
                   hardwareAddrOnce, storageMutex, monotonicCounter, fr, rets, ghost>>

\* the body of getMonotonicClockSequence under the lock, and the deferred Unlock
MonotonicBody(t) ==
    /\ pc[t] = "mono_body"
    /\ LET timeNow == EpochOf(TRUE, fr[t].at)
           counter == NextMonotonicCounter(monotonicCounter, timeNow, lastTime)
       IN  /\ monotonicCounter' = counter
           /\ lastTime' = timeNow
           /\ fr' = [fr EXCEPT ![t].timeNow = timeNow, ![t].clockSeq = counter,
                               ![t].monoCalls = @ + 1]
           /\ trail' = [trail EXCEPT !.monoTime = timeNow]
    /\ monotonicMutex' = 0
    /\ pc' = [pc EXCEPT ![t] = "batch_rand"]
    /\ UNCHANGED <<clockSequence, hardwareAddr, clockSequenceOnce, hardwareAddrOnce,
                   storageMutex, rets, ncalls, hwCalls, incs, issuedV1, hashed>>

(***************************************************************************)
(* getHardwareAddr, with the rest of NewV1AtTime that follows it.          *)
(***************************************************************************)
\* g.hardwareAddr[0] |= 0x01
SetMulticastBit(addr) == [addr EXCEPT ![1] = IF @ % 2 = 0 THEN @ + 1 ELSE @]

\* NewV1AtTime after getHardwareAddr returned (addr, nil)
V1Return(t, addr) ==
    ReturnUUID(t, "V1", fr[t].at,
               V1Finish(V1TimeFields(fr[t].timeNow, fr[t].clockSeq), addr))

\* g.hardwareAddrOnce.Do: the first caller runs the resolving function
HardwareAddrOnceEnter(t) ==
    /\ pc[t] = "hw_once"
    /\ OnceRunsFunction(hardwareAddrOnce)
    /\ hardwareAddrOnce' = "running"
    /\ pc' = [pc EXCEPT ![t] = "hw_resolve"]
    /\ UNCHANGED <<lastTime, clockSequence, hardwareAddr, clockSequenceOnce, storageMutex,
                   monotonicCounter, monotonicMutex, fr, rets, ghost>>

\* the resolving function, and what follows Do in getHardwareAddr and its caller
HardwareAddrResolve(t) ==
    /\ pc[t] = "hw_resolve"
    /\ hardwareAddrOnce' = "done"
    /\ hwCalls' = IF hwCalls < 2 THEN hwCalls + 1 ELSE hwCalls
    /\ \E h \in HwAddrFunc :
         IF h.ok
         THEN /\ hardwareAddr' = CopyAt(hardwareAddr, 0, h.addr)
              /\ V1Return(t, hardwareAddr')
         ELSE \E r \in RandRead(6) :
                IF r.ok
                THEN /\ hardwareAddr' = SetMulticastBit(CopyAt(hardwareAddr, 0, r.bytes))
                     /\ V1Return(t, hardwareAddr')
                ELSE /\ hardwareAddr' = CopyAt(hardwareAddr, 0, r.bytes)
                     /\ ReturnErr(t, "V1", fr[t].at, "rand")
    /\ UNCHANGED <<lastTime, clockSequence, clockSequenceOnce, storageMutex,
                   monotonicCounter, monotonicMutex, ncalls, incs, trail>>

\* g.hardwareAddrOnce.Do when the Once is done: err stays nil and the cached
\* bytes are returned
HardwareAddrOnceSkip(t) ==
    /\ pc[t] = "hw_once"
    /\ OnceIsDone(hardwareAddrOnce)
    /\ V1Return(t, hardwareAddr)
    /\ UNCHANGED <<gen, ncalls, hwCalls, incs, trail>>

(***************************************************************************)
(* The public operations.                                                  *)
(***************************************************************************)
\* NewV1AtTime(atTime), and NewV1 with atTime = g.epochFunc()
NewV1AtTime(t, atTime) ==
    /\ Enter(t, "cs_once", [IdleFrame EXCEPT !.op = "V1", !.at = atTime])
    /\ UNCHANGED <<gen, rets, hwCalls, incs, issuedV1, hashed, trail>>

\* NewV6AtTime(atTime), and NewV6
NewV6AtTime(t, atTime) ==
    /\ Enter(t, "cs_once", [IdleFrame EXCEPT !.op = "V6", !.at = atTime])
    /\ UNCHANGED <<gen, rets, hwCalls, incs, issuedV1, hashed, trail>>

\* NewV7AtTime(atTime), and NewV7
NewV7AtTime(t, atTime) ==
    /\ Enter(t, "cs_once", [IdleFrame EXCEPT !.op = "V7", !.at = atTime])
    /\ UNCHANGED <<gen, rets, hwCalls, incs, issuedV1, hashed, trail>>

\* NewV6AtTime and NewV7AtTime after getClockSequence: the random bytes
RandomBytes(t) ==
    /\ pc[t] = "rand_b"
    /\ \E r \in RandRead(8) :
         IF ~r.ok THEN ReturnErr(t, fr[t].op, fr[t].at, "rand")
         ELSE Return(t, [NoRet EXCEPT
                !.op = fr[t].op, !.at = fr[t].at, !.read = r.bytes,
                !.uuid = IF fr[t].op = "V6"
                         THEN V6Finish(V6TimeFields(fr[t].timeNow), r.bytes)
                         ELSE V7Finish(V7TimeFields(fr[t].timeNow, fr[t].clockSeq),
                                       r.bytes)])
    /\ UNCHANGED <<gen, ncalls, hwCalls, incs, trail>>

NewV3(t, ns, name) ==
    /\ pc[t] = "idle"
    /\ Started
    /\ Return(t, [NoRet EXCEPT !.op = "V3", !.ns = ns, !.name = name,
                                 !.uuid = NewV3Value(ns, name)])
    /\ UNCHANGED <<gen, hwCalls, incs, trail>>

NewV5(t, ns, name) ==
    /\ pc[t] = "idle"
    /\ Started
    /\ Return(t, [NoRet EXCEPT !.op = "V5", !.ns = ns, !.name = name,
                                 !.uuid = NewV5Value(ns, name)])
    /\ UNCHANGED <<gen, hwCalls, incs, trail>>

NewV4(t) ==
    /\ pc[t] = "idle"
    /\ Started
    /\ \E r \in RandRead(16) :
         IF r.ok
         THEN Return(t, [NoRet EXCEPT !.op = "V4", !.uuid = V4Layout(r.bytes),
                                      !.read = r.bytes, !.randReads = 1])
         ELSE Return(t, [NoRet EXCEPT !.op = "V4", !.err = "rand", !.randReads = 1])
    /\ UNCHANGED <<gen, hwCalls, incs, trail>>

(***************************************************************************)
(* GenerateBatchV7 and newMonotonicV7.                                     *)
(***************************************************************************)
BatchSizes == (-1)..MaxBatch

BatchReturn(t, err, uuids, failedAt, frame) ==
    Return(t, [NoRet EXCEPT !.op = "Batch", !.count = frame.count, !.err = err,
                            !.uuids = uuids, !.failedAt = failedAt,
                            !.clockReads = frame.clockReads,
                            !.randReads = frame.randReads,
                            !.monoCalls = frame.monoCalls])

\* a size check that lets a batch of no entries through
BatchSizeNegative(batchSize) == batchSize < 0

\* if batchSize <= 0
BatchSizeInvalid(batchSize) == batchSize <= 0

\* the size check, and make([]UUID, batchSize)
GenerateBatchV7(t, batchSize) ==
    /\ pc[t] = "idle"
    /\ IF BatchSizeInvalid(batchSize)
       THEN /\ Started
            /\ BatchReturn(t, "batchsize", <<>>, 0, [IdleFrame EXCEPT !.count = batchSize])
       ELSE /\ Enter(t, "batch_loop", [IdleFrame EXCEPT !.op = "Batch", !.count = batchSize])
            /\ UNCHANGED <<rets, issuedV1, hashed>>
    /\ UNCHANGED <<gen, hwCalls, incs, trail>>

\* the loop test i < batchSize: g.epochFunc() of newMonotonicV7 when it
\* holds, return uuids, nil when it does not
BatchEntry(t, now) ==
    /\ pc[t] = "batch_loop"
    /\ IF fr[t].i < fr[t].count
       THEN /\ fr' = [fr EXCEPT ![t].at = now, ![t].clockReads = @ + 1]
            /\ pc' = [pc EXCEPT ![t] = "mono_lock"]
            /\ UNCHANGED <<rets, issuedV1, hashed>>
       ELSE BatchReturn(t, "nil", fr[t].uuids, 0, fr[t])
    /\ UNCHANGED <<gen, ncalls, hwCalls, incs, trail>>

\* a failed draw that hands back the entries built so far
BatchFailureKeepsPrefix(t, frame) ==
    BatchReturn(t, "rand", frame.uuids, frame.i + 1, frame)

\* if err != nil { return nil, err } in GenerateBatchV7
BatchFailure(t, frame) ==
    BatchReturn(t, "rand", <<>>, frame.i + 1, frame)

\* newMonotonicV7 after getMonotonicClockSequence, then uuids[i] = uuid and i++
BatchRandomBytes(t) ==
    /\ pc[t] = "batch_rand"
    /\ \E r \in RandRead(8) :
         LET frame == [fr[t] EXCEPT !.randReads = @ + 1]
             u == V7Finish(V7TimeFields(fr[t].timeNow, fr[t].clockSeq), r.bytes)
         IN  IF ~r.ok THEN BatchFailure(t, frame)
             ELSE /\ fr' = [fr EXCEPT ![t] = [frame EXCEPT !.uuids = Append(@, u),
                                                           !.i = @ + 1]]
                  /\ pc' = [pc EXCEPT ![t] = "batch_loop"]
                  /\ UNCHANGED <<rets, issuedV1, hashed>>
    /\ UNCHANGED <<gen, ncalls, hwCalls, incs, trail>>

(***************************************************************************)
(* The specifications.                                                     *)
(***************************************************************************)
\* the steps inside a call
Step(t) ==
    \/ ClockSeqOnceEnter(t)
    \/ ClockSeqSeed(t)
    \/ ClockSeqOnceSkip(t)
    \/ ClockSeqLock(t)
    \/ ClockSeqBody(t)
    \/ HardwareAddrOnceEnter(t)
    \/ HardwareAddrResolve(t)
    \/ HardwareAddrOnceSkip(t)
    \/ RandomBytes(t)
    \/ \E now \in Times : BatchEntry(t, now)
    \/ MonotonicLock(t)
    \/ MonotonicBody(t)
    \/ BatchRandomBytes(t)

Caller == {1}

Init == InitWith(Caller)

\* one caller, every operation
Next ==
    \E t \in Caller :
        \/ Step(t)
        \/ ncalls < MaxCallsAll /\ \E at \in Times : NewV1AtTime(t, at)
        \/ ncalls < MaxCallsAll /\ \E ns \in Namespaces, name \in Names : NewV3(t, ns, name)
        \/ ncalls < MaxCallsAll /\ NewV4(t)
        \/ ncalls < MaxCallsAll /\ \E ns \in Namespaces, name \in Names : NewV5(t, ns, name)
        \/ ncalls < MaxCallsAll /\ \E at \in Times : NewV6AtTime(t, at)
        \/ ncalls < MaxCallsAll /\ \E at \in Times : NewV7AtTime(t, at)
        \/ ncalls < MaxCallsAll /\ \E n \in (-1)..MaxBatchAll : GenerateBatchV7(t, n)

Spec == Init /\ [][Next]_vars

\* the steps of the calls that use getClockSequence
TrackerStep(t) ==
    \/ ClockSeqOnceEnter(t)
    \/ ClockSeqSeed(t)
    \/ ClockSeqOnceSkip(t)
    \/ ClockSeqLock(t)
    \/ ClockSeqBody(t)
    \/ RandomBytes(t)

\* the steps of a batch
BatchStep(t) ==
    \/ \E now \in Times : BatchEntry(t, now)
    \/ MonotonicLock(t)
    \/ MonotonicBody(t)
    \/ BatchRandomBytes(t)

\* one caller of a batch-capable generator: batches and single v7 identifiers
NextBatch ==
    \E t \in Caller :
        \/ TrackerStep(t)
        \/ BatchStep(t)
        \/ ncalls < MaxCallsAll /\ \E at \in Times : NewV7AtTime(t, at)
        \/ ncalls < MaxCallsAll /\ \E n \in BatchSizes : GenerateBatchV7(t, n)

SpecBatch == Init /\ [][NextBatch]_vars

(***************************************************************************)
(* C1.  A successful GenerateBatchV7(count), count >= 1, returns its       *)
(* identifiers in strictly increasing byte-lexicographic order: entry i is *)
(* less than entry j for all positions i < j, whatever the clock returned  *)
(* during the call and whatever the generator's state was before it.       *)
(***************************************************************************)
C1_BatchStrictlyIncreasing ==
    (ret.op = "Batch" /\ ret.err = "nil") =>
        \A i, j \in 1..Len(ret.uuids) :
            i < j => BytesLt(ret.uuids[i], ret.uuids[j])

\* one caller: the three operations that use getClockSequence
NextTime ==
    \E t \in Caller :
        \/ TrackerStep(t)
        \/ HardwareAddrOnceEnter(t)
        \/ HardwareAddrResolve(t)
        \/ HardwareAddrOnceSkip(t)
        \/ ncalls < MaxCalls /\ \E at \in Times : NewV1AtTime(t, at)
        \/ ncalls < MaxCalls /\ \E at \in Times : NewV6AtTime(t, at)
        \/ ncalls < MaxCalls /\ \E at \in Times : NewV7AtTime(t, at)

SpecTime == Init /\ [][NextTime]_vars

\* the last two calls to return were both op, both succeeded, and were
\* given the same instant
SameInstantPair(op) ==
    /\ prev.op = op /\ prev.err = "nil"
    /\ ret.op = op /\ ret.err = "nil"
    /\ prev.at = ret.at

\* the two bytes that hold the clock sequence: 8-9 of a v1, 6-7 of a v7
ClockSeqBytes(r) ==
    IF r.op = "V1" THEN Uint16(Slice(r.uuid, 9, 10)) ELSE Uint16(Slice(r.uuid, 7, 8))

\* what the version or variant bits leave of them: 14 bits of a v1, 12 of a v7
ClockSeqFieldSize(op) == IF op = "V1" THEN 2 ^ 14 ELSE 2 ^ 12

(***************************************************************************)
(* C2, as claimed.  Two consecutive NewV1AtTime calls (or two consecutive  *)
(* NewV7AtTime calls) at the same instant return identifiers whose clock   *)
(* sequence bytes differ, the second being the first plus one modulo 2^16. *)
(***************************************************************************)
C2_PlusOneMod65536 ==
    \A op \in {"V1", "V7"} :
        SameInstantPair(op) =>
            /\ ClockSeqBytes(ret) # ClockSeqBytes(prev)
            /\ ClockSeqBytes(ret) = (ClockSeqBytes(prev) + 1) % 65536

(***************************************************************************)
(* C2, amended.  The clock sequence bytes of the two identifiers differ,   *)
(* and the clock sequence field of the second (the low 14 bits of bytes    *)
(* 8-9 of a v1, the low 12 bits of bytes 6-7 of a v7) is that of the first *)
(* plus one modulo the size of the field, 2^14 or 2^12.                    *)
(***************************************************************************)
C2_PlusOneInField ==
    \A op \in {"V1", "V7"} :
        SameInstantPair(op) =>
            /\ ClockSeqBytes(ret) # ClockSeqBytes(prev)
            /\ ClockSeqBytes(ret) % ClockSeqFieldSize(op)
                 = (ClockSeqBytes(prev) + 1) % ClockSeqFieldSize(op)

\* two v1 calls at one instant, the first with a field of all ones
C2_Witness ==
    /\ SameInstantPair("V1")
    /\ ClockSeqBytes(prev) % ClockSeqFieldSize("V1") = ClockSeqFieldSize("V1") - 1

(***************************************************************************)
(* C4.  Of two NewV7AtTime calls made one after the other, the second at a *)
(* time not earlier than the first's, bytes 0-7 of the first identifier    *)
(* are byte-lexicographically less than bytes 0-7 of the second.           *)
(***************************************************************************)
C4_V7SortsInIssuanceOrder ==
    (/\ prev.op = "V7" /\ prev.err = "nil"
     /\ ret.op = "V7" /\ ret.err = "nil"
     /\ prev.at <= ret.at)
        => BytesLt(Slice(prev.uuid, 1, 8), Slice(ret.uuid, 1, 8))

\* the instant of a clock that does not move
StalledAt == 1000000

\* one caller of NewV1 whose clock is stalled, for as many calls as it takes
\* the clock sequence to come round
NextStalled ==
    \E t \in Caller :
        \/ ClockSeqOnceEnter(t)
        \/ ClockSeqSeed(t)
        \/ ClockSeqOnceSkip(t)
        \/ ClockSeqLock(t)
        \/ ClockSeqBody(t)
        \/ HardwareAddrOnceEnter(t)
        \/ HardwareAddrResolve(t)
        \/ HardwareAddrOnceSkip(t)
        \/ incs < MaxIncrements /\ NewV1AtTime(t, StalledAt)

SpecStalled == Init /\ [][NextStalled]_vars

(***************************************************************************)
(* C3.  Whatever the clock does, a v1 identifier that a call returns       *)
(* differs in its clock sequence field (bytes 8-9) from every v1           *)
(* identifier with the same timestamp (bytes 0-7) that the instance        *)
(* returned before, so no two v1 identifiers of one instance are equal.    *)
(***************************************************************************)
C3_SameTimestampDiffers ==
    [][\A t \in DOMAIN pc :
         (pc[t] # "idle" /\ pc'[t] = "idle" /\ ret'.op = "V1" /\ ret'.err = "nil")
            => \A e \in issuedV1 :
                 e.ts = Slice(ret'.uuid, 1, 8) => e.seq # Slice(ret'.uuid, 9, 10)]_vars

\* two threads that call NewV1 on one generator
Callers == {1, 2}

InitConcurrent == InitWith(Callers)

NextConcurrent ==
    \E t \in Callers :
        \/ ClockSeqOnceEnter(t)
        \/ ClockSeqSeed(t)
        \/ ClockSeqOnceSkip(t)
        \/ ClockSeqLock(t)
        \/ ClockSeqBody(t)
        \/ HardwareAddrOnceEnter(t)
        \/ HardwareAddrResolve(t)
        \/ HardwareAddrOnceSkip(t)
        \/ ncalls < MaxCalls /\ \E at \in Times : NewV1AtTime(t, at)

SpecConcurrent == InitConcurrent /\ [][NextConcurrent]_vars

(***************************************************************************)
(* C5.  On one generator the hardware address source is invoked at most    *)
(* once, also when threads call NewV1 concurrently, and every v1           *)
(* identifier the instance returns carries the same node bytes (10-15),    *)
(* whatever the source would return if it were asked again.                *)
(***************************************************************************)
C5_HardwareAddrResolvedOnce ==
    /\ hwCalls <= 1
    /\ \A e1, e2 \in issuedV1 : e1.node = e2.node

\* two threads have each been returned a v1 identifier, and a thread is
\* inside NewV1 again
C5_Witness ==
    /\ prev.op = "V1" /\ prev.err = "nil"
    /\ ret.op = "V1" /\ ret.err = "nil"
    /\ prev.thr # ret.thr
    /\ hwCalls = 1
    /\ \E t \in Callers : pc[t] = "hw_once"

(***************************************************************************)
(* C6.  GenerateBatchV7(count) with count <= 0 returns at once with the    *)
(* batch size error and no identifiers; it reads neither the clock nor the *)
(* random source and leaves the generator, lastTime and the monotonic      *)
(* counter included, unchanged.                                            *)
(***************************************************************************)
C6_InvalidBatchSizeTouchesNothing ==
    [][\A t \in DOMAIN pc :
         (/\ pc[t] = "idle"
          /\ ncalls' # ncalls
          /\ \/ pc'[t] = "idle" /\ ret'.op = "Batch" /\ ret'.count <= 0
             \/ fr'[t].op = "Batch" /\ fr'[t].count <= 0)
            => /\ pc'[t] = "idle"
               /\ ret'.err = "batchsize"
               /\ ret'.uuids = <<>>
               /\ ret'.clockReads = 0 /\ ret'.randReads = 0 /\ ret'.monoCalls = 0
               /\ UNCHANGED gen]_vars

\* a batch of size 0 or less was refused by a generator that had issued a
\* batch before
C6_Witness ==
    /\ ret.op = "Batch" /\ ret.count <= 0 /\ ret.err = "batchsize"
    /\ prev.op = "Batch" /\ prev.err = "nil"
    /\ lastTime # U64Zero

(***************************************************************************)
(* C7.  When the random draw of the k-th entry of GenerateBatchV7(count)   *)
(* fails, the call returns the error and no identifier, the k-1 entries    *)
(* built before it included; the monotonic counter has been advanced       *)
(* exactly k times, and no entry after the k-th is attempted.              *)
(***************************************************************************)
C7_FailureMidBatch ==
    (ret.op = "Batch" /\ (ret.failedAt # 0 \/ ret.err = "rand")) =>
        /\ ret.err = "rand"
        /\ ret.uuids = <<>>
        /\ ret.failedAt \in 1..ret.count
        /\ ret.monoCalls = ret.failedAt
        /\ ret.clockReads = ret.failedAt
        /\ ret.randReads = ret.failedAt

\* the draw of the second entry failed, after a first entry was built
C7_Witness ==
    /\ ret.op = "Batch" /\ ret.err = "rand" /\ ret.failedAt = 2
    /\ monotonicCounter = 1

\* one caller: the operations that take no timestamp, and NewV7AtTime to
\* change the generator's state between them
NextHash ==
    \E t \in Caller :
        \/ TrackerStep(t)
        \/ ncalls < MaxCalls /\ \E ns \in Namespaces, name \in Names : NewV3(t, ns, name)
        \/ ncalls < MaxCalls /\ NewV4(t)
        \/ ncalls < MaxCalls /\ \E ns \in Namespaces, name \in Names : NewV5(t, ns, name)
        \/ ncalls < MaxCalls /\ \E at \in Times : NewV7AtTime(t, at)

SpecHash == Init /\ [][NextHash]_vars

\* the version each operation stamps
VersionNumber(op) ==
    CASE op = "V1" -> 1 [] op = "V3" -> 3 [] op = "V4" -> 4 [] op = "V5" -> 5
      [] op = "V6" -> 6 [] OTHER -> 7

(***************************************************************************)
(* C8.  Every identifier returned without error by NewV1, NewV3, NewV4,    *)
(* NewV5, NewV6 or NewV7, or inside a batch, has the version nibble of its *)
(* operation (high 4 bits of byte 6) and the variant bits 10 (top 2 bits   *)
(* of byte 8); a call that returns an error returns Nil, and a batch no    *)
(* identifiers.                                                            *)
(***************************************************************************)
C8_VersionAndVariant ==
    ret.op # "none" =>
        IF ret.err # "nil" THEN ret.uuid = Nil /\ ret.uuids = <<>>
        ELSE IF ret.op = "Batch"
        THEN /\ Len(ret.uuids) = ret.count
             /\ \A i \in 1..Len(ret.uuids) :
                  VersionOf(ret.uuids[i]) = 7 /\ VariantBits(ret.uuids[i]) = 2
        ELSE VersionOf(ret.uuid) = VersionNumber(ret.op) /\ VariantBits(ret.uuid) = 2

\* a v7 identifier was returned whose clock sequence has a high nibble
\* other than 7
C8_Witness ==
    /\ ret.op = "V7" /\ ret.err = "nil"
    /\ clockSequence \div 4096 = 3

C10_V4IsTheBytesRead ==
    ret.op = "V4" =>
        IF ret.err # "nil" THEN ret.uuid = Nil
        ELSE /\ \A k \in (1..16) \ {7, 9} : ret.uuid[k] = ret.read[k]
             /\ ret.uuid[7] = 64 + (ret.read[7] % 16)
             /\ ret.uuid[9] = 128 + (ret.read[9] % 64)
             /\ ret.read = [k \in 1..16 |-> 0]
                  => ret.uuid = <<0, 0, 0, 0, 0, 0, 64, 0, 128, 0, 0, 0, 0, 0, 0, 0>>

\* NewV4 returned bytes whose version nibble and variant bits were not
\* 4 and 10 as read
C10_Witness ==
    /\ ret.op = "V4" /\ ret.err = "nil"
    /\ ret.read[7] \div 16 # 4 /\ ret.read[9] \div 64 # 2

(***************************************************************************)
(* C11.  On a batch-capable generator the batch counter and the clock      *)
(* sequence keep separate last timestamps: a getMonotonicClockSequence     *)
(* call resets or increments the counter by comparing its timestamp with   *)
(* that of the previous getMonotonicClockSequence call, whatever single    *)
(* identifiers were issued before or between, and a getClockSequence call  *)
(* increments the clock sequence by comparing its timestamp with that of   *)
(* the previous getClockSequence call, whatever batches were issued.       *)
(***************************************************************************)
C11_StatesAreSeparate ==
    [][\A t \in DOMAIN pc :
         /\ (pc[t] = "mono_body" /\ pc'[t] = "batch_rand")
               => monotonicCounter'
                    = NextMonotonicCounter(monotonicCounter, fr'[t].timeNow, trail.monoTime)
         /\ (pc[t] = "cs_body" /\ pc'[t] # "cs_body")
               => clockSequence'
                    = NextClockSequence(clockSequence, fr'[t].timeNow, trail.csTime)]_vars

(***************************************************************************)
(* The bodies of getClockSequence and getMonotonicClockSequence as their   *)
(* loads and stores, for callers that run at the same time.  g.lastTime is *)
(* a uint64: a build for a machine with 32-bit words loads and stores it   *)
(* as two words, upper 32 bits (limbs 1 and 2) and lower 32 bits (limbs 3  *)
(* and 4), and a build for a 64-bit machine as one, which is the former    *)
(* with its two steps taken one after the other.  The upper word goes      *)
(* first here; the other order gives the same set of values.               *)
(***************************************************************************)
UpperWord(v) == <<v[1], v[2]>>
LowerWord(v) == <<v[3], v[4]>>
Words(upper, lower) == <<upper[1], upper[2], lower[1], lower[2]>>

\* a mutex that lets a second thread in while it is held
MutexLoose(mutex) == TRUE

\* Lock() returns when no thread holds the mutex
MutexFree(mutex) == mutex = 0

\* a deferred Unlock that is never run
MutexKept(t) == t

\* the deferred Unlock()
MutexUnlocked(t) == 0

\* g.storageMutex.Lock()
TrackerLock(t) ==
    /\ pc[t] = "cs_lock"
    /\ MutexFree(storageMutex)
    /\ storageMutex' = t
    /\ pc' = [pc EXCEPT ![t] = "cs_body"]
    /\ UNCHANGED <<lastTime, clockSequence, hardwareAddr, clockSequenceOnce,
                   hardwareAddrOnce, monotonicCounter, monotonicMutex, fr, rets, ghost>>

\* timeNow of getClockSequence, and the upper word of g.lastTime loaded
TrackerLoadUpper(t) ==
    /\ pc[t] = "cs_body"
    /\ fr' = [fr EXCEPT ![t].timeNow = EpochOf(fr[t].op = "V7", fr[t].at),
                        ![t].seen = Words(UpperWord(lastTime), <<0, 0>>)]
    /\ pc' = [pc EXCEPT ![t] = "cs_load"]
    /\ UNCHANGED <<gen, rets, ghost>>

\* the lower word loaded: if timeNow <= g.lastTime { g.clockSequence++ }
TrackerCompare(t) ==
    /\ pc[t] = "cs_load"
    /\ LET last == Words(UpperWord(fr[t].seen), LowerWord(lastTime))
           seq == NextClockSequence(clockSequence, fr[t].timeNow, last)
       IN  /\ clockSequence' = seq
           /\ incs' = IF seq = clockSequence THEN incs ELSE incs + 1
           /\ fr' = [fr EXCEPT ![t].seen = last]
    /\ pc' = [pc EXCEPT ![t] = "cs_store"]
    /\ UNCHANGED <<lastTime, hardwareAddr, clockSequenceOnce, hardwareAddrOnce,
                   storageMutex, monotonicCounter, monotonicMutex, rets, ncalls,
                   hwCalls, issuedV1, hashed, trail>>

\* g.lastTime = timeNow, the upper word
TrackerStoreUpper(t) ==
    /\ pc[t] = "cs_store"
    /\ lastTime' = Words(UpperWord(fr[t].timeNow), LowerWord(lastTime))
    /\ pc' = [pc EXCEPT ![t] = "cs_store2"]
    /\ UNCHANGED <<clockSequence, hardwareAddr, clockSequenceOnce, hardwareAddrOnce,
                   storageMutex, monotonicCounter, monotonicMutex, fr, rets, ghost>>

\* the lower word, return timeNow, g.clockSequence, nil and the deferred Unlock
TrackerStoreLower(t) ==
    /\ pc[t] = "cs_store2"
    /\ lastTime' = Words(UpperWord(lastTime), LowerWord(fr[t].timeNow))
    /\ fr' = [fr EXCEPT ![t].clockSeq = clockSequence]
    /\ trail' = Tracked(trail, fr[t].at, fr[t].timeNow, clockSequence)
    /\ storageMutex' = MutexUnlocked(t)
    /\ pc' = [pc EXCEPT ![t] = IF fr[t].op = "V1" THEN "hw_once" ELSE "rand_b"]
    /\ UNCHANGED <<clockSequence, hardwareAddr, clockSequenceOnce, hardwareAddrOnce,
                   monotonicCounter, monotonicMutex, rets, ncalls, hwCalls, incs,
                   issuedV1, hashed>>

\* timeNow of getMonotonicClockSequence, and the upper word of g.lastTime loaded
MonotonicLoadUpper(t) ==
    /\ pc[t] = "mono_body"
    /\ fr' = [fr EXCEPT ![t].timeNow = EpochOf(TRUE, fr[t].at),
                        ![t].seen = Words(UpperWord(lastTime), <<0, 0>>)]
    /\ pc' = [pc EXCEPT ![t] = "mono_load"]
    /\ UNCHANGED <<gen, rets, ghost>>

\* the lower word loaded: the counter incremented or set to 0
MonotonicCompare(t) ==
    /\ pc[t] = "mono_load"
    /\ LET last == Words(UpperWord(fr[t].seen), LowerWord(lastTime))
       IN  /\ monotonicCounter' = NextMonotonicCounter(monotonicCounter, fr[t].timeNow, last)
           /\ fr' = [fr EXCEPT ![t].seen = last]
    /\ pc' = [pc EXCEPT ![t] = "mono_store"]
    /\ UNCHANGED <<lastTime, clockSequence, hardwareAddr, clockSequenceOnce,
                   hardwareAddrOnce, storageMutex, monotonicMutex, rets, ghost>>

\* g.lastTime = timeNow, the upper word
MonotonicStoreUpper(t) ==
    /\ pc[t] = "mono_store"
    /\ lastTime' = Words(UpperWord(fr[t].timeNow), LowerWord(lastTime))
    /\ pc' = [pc EXCEPT ![t] = "mono_store2"]
    /\ UNCHANGED <<clockSequence, hardwareAddr, clockSequenceOnce, hardwareAddrOnce,
                   storageMutex, monotonicCounter, monotonicMutex, fr, rets, ghost>>

\* the lower word, return timeNow, g.monotonicCounter, nil and the deferred Unlock
MonotonicStoreLower(t) ==
    /\ pc[t] = "mono_store2"
    /\ lastTime' = Words(UpperWord(lastTime), LowerWord(fr[t].timeNow))
    /\ fr' = [fr EXCEPT ![t].clockSeq = monotonicCounter, ![t].monoCalls = @ + 1]
    /\ trail' = [trail EXCEPT !.monoTime = fr[t].timeNow]
    /\ monotonicMutex' = MutexUnlocked(t)
    /\ pc' = [pc EXCEPT ![t] = "batch_rand"]
    /\ UNCHANGED <<clockSequence, hardwareAddr, clockSequenceOnce, hardwareAddrOnce,
                   storageMutex, monotonicCounter, rets, ncalls, hwCalls, incs,
                   issuedV1, hashed>>

\* the steps of getClockSequence, its body as loads and stores
TrackerWords(t) ==
    \/ ClockSeqOnceEnter(t)
    \/ ClockSeqSeed(t)
    \/ ClockSeqOnceSkip(t)
    \/ TrackerLock(t)
    \/ TrackerLoadUpper(t)
    \/ TrackerCompare(t)
    \/ TrackerStoreUpper(t)
    \/ TrackerStoreLower(t)

\* the steps of getMonotonicClockSequence, its body as loads and stores
MonotonicWords(t) ==
    \/ MonotonicLock(t)
    \/ MonotonicLoadUpper(t)
    \/ MonotonicCompare(t)
    \/ MonotonicStoreUpper(t)
    \/ MonotonicStoreLower(t)

\* the steps inside the calls of two threads on one MonotonicGen whose clock
\* is stalled
RaceStep(t) ==
    \/ TrackerWords(t)
    \/ MonotonicWords(t)
    \/ HardwareAddrOnceEnter(t)
    \/ HardwareAddrResolve(t)
    \/ HardwareAddrOnceSkip(t)
    \/ RandomBytes(t)
    \/ BatchEntry(t, StalledAt)
    \/ BatchRandomBytes(t)

\* two threads, the four operations that keep a last timestamp, all given
\* the one instant of the stalled clock
NextRace ==
    \E t \in Callers :
        \/ RaceStep(t)
        \/ ncalls < MaxCallsAll /\ NewV1AtTime(t, StalledAt)
        \/ ncalls < MaxCallsAll /\ NewV6AtTime(t, StalledAt)
        \/ ncalls < MaxCallsAll /\ NewV7AtTime(t, StalledAt)
        \/ ncalls < MaxCallsAll /\ \E n \in 1..MaxBatchAll : GenerateBatchV7(t, n)

SpecRace == InitConcurrent /\ [][NextRace]_vars

\* thread t is between the Lock and the Unlock of getClockSequence, where
\* g.lastTime and g.clockSequence are read and written
InTrackerSection(t) == pc[t] \in {"cs_body", "cs_load", "cs_store", "cs_store2"}

\* thread t is between the Lock and the Unlock of getMonotonicClockSequence,
\* where g.lastTime and g.monotonicCounter are read and written
InMonotonicSection(t) == pc[t] \in {"mono_body", "mono_load", "mono_store", "mono_store2"}

\* the fields thread t reads or writes where it is
FieldsInUse(t) ==
    (IF InTrackerSection(t) THEN {"lastTime", "clockSequence"} ELSE {})
    \cup (IF InMonotonicSection(t) THEN {"lastTime", "monotonicCounter"} ELSE {})
    \cup (IF pc[t] = "cs_seed" THEN {"clockSequence"} ELSE {})

(***************************************************************************)
(* C12.  In no interleaving of concurrent NewV1, NewV6, NewV7 and          *)
(* GenerateBatchV7 calls on one batch-capable generator are two threads at *)
(* once in code that reads or writes the same shared field (lastTime,      *)
(* clockSequence, monotonicCounter): each field is used under one lock.    *)
(***************************************************************************)
C12_OneThreadPerField ==
    \A t1, t2 \in DOMAIN pc :
        t1 # t2 => FieldsInUse(t1) \cap FieldsInUse(t2) = {}

\* the locks thread t holds: the two mutexes, and a Once while t runs its function
LocksHeld(t) ==
    (IF storageMutex = t THEN {"storageMutex"} ELSE {})
    \cup (IF monotonicMutex = t THEN {"monotonicMutex"} ELSE {})
    \cup (IF pc[t] = "cs_seed" THEN {"clockSequenceOnce"} ELSE {})
    \cup (IF pc[t] = "hw_resolve" THEN {"hardwareAddrOnce"} ELSE {})

\* thread t is about to acquire a lock
Acquiring(t) == pc[t] \in {"cs_once", "cs_lock", "mono_lock", "hw_once"}

NoNestedLocks ==
    \A t \in DOMAIN pc :
        /\ Cardinality(LocksHeld(t)) <= 1
        /\ Acquiring(t) => LocksHeld(t) = {}

\* while a call is running, some running call can take a step
NoDeadlock ==
    (\E t \in Callers : pc[t] # "idle")
        => \E t \in Callers : pc[t] # "idle" /\ ENABLED RaceStep(t)

\* the race specification under fair scheduling of each thread: a thread
\* that can take a step of its call does take one
SpecRaceFair == SpecRace /\ \A t \in Callers : WF_vars(RaceStep(t))

(***************************************************************************)
(* C13.  Under any interleaving of concurrent NewV1, NewV6, NewV7 and      *)
(* GenerateBatchV7 calls on one instance, no thread acquires a lock of the *)
(* generator while it holds another, no deadlock is reachable, and, the    *)
(* sources returning and scheduling being fair, every call that has        *)
(* started returns (an identifier, a batch or an error).                   *)
(***************************************************************************)
C13_CallsComplete ==
    /\ []NoNestedLocks
    /\ []NoDeadlock
    /\ \A t \in Callers : (pc[t] # "idle") ~> (pc[t] = "idle")

\* a thread waits for the storage mutex that the other thread holds while
\* the monotonic mutex is free
C13_Witness ==
    /\ pc[1] = "cs_lock"
    /\ storageMutex = 2
    /\ monotonicMutex = 0

\* two threads that call NewV6AtTime and NewV7AtTime, the two epoch modes of
\* getClockSequence, on one generator
NextTracker ==
    \E t \in Callers :
        \/ TrackerWords(t)
        \/ RandomBytes(t)
        \/ ncalls < MaxCallsAll /\ \E at \in Times : NewV6AtTime(t, at)
        \/ ncalls < MaxCallsAll /\ \E at \in Times : NewV7AtTime(t, at)

SpecTracker == InitConcurrent /\ [][NextTracker]_vars

C15_CounterResetsOrIncrements ==
    [][\A t \in DOMAIN pc :
         pc[t] = "mono_body"
            => /\ pc'[t] = "batch_rand"
               /\ fr'[t].timeNow = U64(UnixMilli(fr[t].at))
               /\ monotonicCounter'
                    = IF U64Lt(trail.monoTime, fr'[t].timeNow)
                      THEN 0
                      ELSE (monotonicCounter + 1) % 65536
               /\ fr'[t].clockSeq = monotonicCounter'
               /\ lastTime' = fr'[t].timeNow]_vars

(***************************************************************************)
(* C16.  NewV1, NewV6 and NewV7 return an identifier only if the           *)
(* instance's clock sequence was seeded by a successful two-byte read of   *)
(* the random source: a call made after (or while) the seeding read of     *)
(* another call failed does not return an identifier either.               *)
(***************************************************************************)
C16_IdentifierOnlyIfSeeded ==
    (ret.op \in {"V1", "V6", "V7"} /\ ret.err = "nil") => trail.seeded

\* the addresses getHardwareAddr may hand out: one the source supplied, or
\* six bytes read in full from the random source with the multicast bit set
ResolvedAddrs ==
    {h.addr : h \in {x \in HwAddrFunc : x.ok}}
    \cup {SetMulticastBit(r.bytes) : r \in {x \in RandRead(6) : x.ok}}

(***************************************************************************)
(* C17.  The node bytes (10-15) of every v1 identifier an instance returns *)
(* are an address the hardware address source supplied, or six bytes read  *)
(* in full from the random source with the least significant bit of byte 0 *)
(* set: when the source and the random read both failed, no call of the    *)
(* instance, the first, a later or a concurrent one, returns an            *)
(* identifier.                                                             *)
(***************************************************************************)
C17_NodeIsResolvedAddress ==
    /\ \A e \in issuedV1 : e.node \in ResolvedAddrs
    /\ (ret.op = "V1" /\ ret.err = "nil") => Slice(ret.uuid, 11, 16) \in ResolvedAddrs

(***************************************************************************)
(* C18.  A getClockSequence call increments clockSequence exactly when the *)
(* clock has not advanced since the previous getClockSequence call on the  *)
(* instance: its instant and that call's instant being taken as timestamps *)
(* of its own epoch mode, a strictly later instant leaves clockSequence    *)
(* unchanged and the same or an earlier instant increments it, also when   *)
(* the previous call used the other epoch mode (v1 and v6 count 100        *)
(* nanoseconds, v7 milliseconds).                                          *)
(***************************************************************************)
C18_IncrementIffClockDidNotAdvance ==
    [][\A t \in DOMAIN pc :
         (pc[t] = "cs_body" /\ pc'[t] # "cs_body" /\ trail.csAt # 0)
            => LET useUnixTSMs == fr[t].op = "V7"
                   now == EpochOf(useUnixTSMs, fr[t].at)
                   before == EpochOf(useUnixTSMs, trail.csAt)
               IN  clockSequence' = IF U64Lt(before, now)
                                    THEN clockSequence
                                    ELSE (clockSequence + 1) % 65536]_vars

(***************************************************************************)
(* C19.  A successful NewV1AtTime(t) returns an identifier whose bytes 0-3 *)
(* are the low 32 bits of T = unixNanos(t)/100 + 122192928000000000, bytes *)
(* 4-5 bits 32-47 of T, bytes 6-7 bits 48-59 of T under the version nibble *)
(* 1, bytes 8-9 the low 14 bits of the clock sequence getClockSequence     *)
(* returned to this call under the variant bits 10, and bytes 10-15 the    *)
(* cached hardware address, all big-endian.                                *)
(***************************************************************************)
C19_V1Layout ==
    [][\A t \in DOMAIN pc :
         (pc[t] \in {"hw_once", "hw_resolve"} /\ pc'[t] = "idle" /\ ret'.err = "nil")
            => LET T == getEpoch(fr[t].at)
                   u == ret'.uuid
               IN  /\ ret'.op = "V1"
                   /\ Uint16(Slice(u, 1, 2)) = T[3]
                   /\ Uint16(Slice(u, 3, 4)) = T[4]
                   /\ Uint16(Slice(u, 5, 6)) = T[2]
                   /\ Uint16(Slice(u, 7, 8)) = 1 * 4096 + (T[1] % 4096)
                   /\ Uint16(Slice(u, 9, 10)) = 2 * 16384 + (fr[t].clockSeq % 16384)
                   /\ Slice(u, 11, 16) = hardwareAddr']_vars

\* a v1 identifier was returned for a clock sequence above 2^14, with a
\* node drawn from the random source
C19_Witness ==
    /\ ret.op = "V1" /\ ret.err = "nil"
    /\ pc[1] = "idle"
    /\ clockSequence >= 49152
    /\ hardwareAddr[1] = 255

\* the 60-bit timestamp read back from bytes 0-7 of a v6 identifier:
\* bits 59-28 from bytes 0-3, bits 27-12 from bytes 4-5, bits 11-0 from the
\* low 12 bits of bytes 6-7
V6Timestamp(u) ==
    LET highUpper == Uint16(Slice(u, 1, 2))
        highLower == Uint16(Slice(u, 3, 4))
        mid == Uint16(Slice(u, 5, 6))
        low == Uint16(Slice(u, 7, 8)) % 4096
    IN  <<highUpper \div 16,
          (highUpper % 16) * 4096 + (highLower \div 16),
          (highLower % 16) * 4096 + (mid \div 16),
          (mid % 16) * 4096 + low>>

\* r is an identifier that NewV6AtTime returned
IsV6(r) == r.op = "V6" /\ r.err = "nil"

=============================================================================
